---- MODULE Spec2Model ----
(***************************************************************************)
(* SimpleRayTracer: a draggable light casts 360 rays against one circle.   *)
(* The model follows src/SimpleRayTracer/SimpleRayTracer.cpp: the Vec2     *)
(* arithmetic and intersect() are computed in IEEE-754 binary32 with       *)
(* round-to-nearest-even after every operation, as the C++ float           *)
(* expressions are; main() is a state machine over its program points.     *)
(***************************************************************************)
EXTENDS Integers, Sequences, FiniteSets, TLC

(***************************************************************************)
(* binary32 values.  A finite float is <<s, e, m>> and denotes             *)
(* (-1)^s * m * 2^e with 2^23 <= m < 2^24; zero is <<0, 0, 0>>; the result *)
(* of 0/0 is NaN.  Every operation rounds its exact result to the nearest  *)
(* float, ties to even.  Intermediate integers stay below 2^31.            *)
(***************************************************************************)
FZero == <<0, 0, 0>>

NaN == <<2, 0, 0>>

IsNaN(x) == x[1] = 2

IsZero(x) == x[1] # 2 /\ x[3] = 0

RECURSIVE BitLen(_)
BitLen(n) == IF n = 0 THEN 0 ELSE 1 + BitLen(n \div 2)

\* The float nearest to (-1)^s * S * 2^e (ties to even), 0 <= S < 2^31.
Norm(s, e, S) ==
    IF S = 0 THEN FZero
    ELSE LET k == BitLen(S) - 24
         IN  IF k <= 0 THEN <<s, e + k, S * 2^(0 - k)>>
             ELSE LET q  == S \div 2^k
                      r  == S % 2^k
                      h  == 2^(k - 1)
                      up == IF r > h \/ (r = h /\ q % 2 = 1) THEN 1 ELSE 0
                  IN  IF q + up = 2^24 THEN <<s, e + k + 1, 2^23>>
                      ELSE <<s, e + k, q + up>>

\* n with its lowest bit set when inexact is TRUE (the sticky bit).
Jam(n, inexact) == IF inexact /\ n % 2 = 0 THEN n + 1 ELSE n

FNeg(x) == IF IsNaN(x) \/ IsZero(x) THEN x ELSE <<1 - x[1], x[2], x[3]>>

\* |x| < |y| for finite x, y.
MagLess(x, y) ==
    IF IsZero(y) THEN FALSE
    ELSE IF IsZero(x) THEN TRUE
    ELSE x[2] < y[2] \/ (x[2] = y[2] /\ x[3] < y[3])

\* x + y where |x| >= |y|, both finite and nonzero: y is aligned to x with
\* three extra bits (guard, round, sticky).
AddAligned(x, y) ==
    LET d  == x[2] - y[2]
        X  == x[3] * 8
        Y8 == y[3] * 8
        Y  == IF d > 27 THEN 1 ELSE Jam(Y8 \div 2^d, Y8 % 2^d # 0)
    IN  IF x[1] = y[1] THEN Norm(x[1], x[2] - 3, X + Y)
        ELSE Norm(x[1], x[2] - 3, X - Y)

FAdd(x, y) ==
    IF IsNaN(x) \/ IsNaN(y) THEN NaN
    ELSE IF IsZero(y) THEN x
    ELSE IF IsZero(x) THEN y
    ELSE IF MagLess(x, y) THEN AddAligned(y, x)
    ELSE AddAligned(x, y)

FSub(x, y) == FAdd(x, FNeg(y))

\* x * y: the 48-bit product of the mantissas from 12-bit halves.
FMul(x, y) ==
    IF IsNaN(x) \/ IsNaN(y) THEN NaN
    ELSE IF IsZero(x) \/ IsZero(y) THEN FZero
    ELSE LET a1  == x[3] \div 4096
             a0  == x[3] % 4096
             b1  == y[3] \div 4096
             b0  == y[3] % 4096
             mid == a1 * b0 + a0 * b1
             low == (mid % 4096) * 4096 + a0 * b0
             hi  == a1 * b1 + mid \div 4096 + low \div 2^24
             lo  == low % 2^24
             S   == Jam(hi * 64 + lo \div 2^18, lo % 2^18 # 0)
             s   == IF x[1] = y[1] THEN 0 ELSE 1
         IN  Norm(s, x[2] + y[2] + 18, S)

\* Long division: <<quotient, remainder>> of (q * den + r) * 2^(sum of
\* shifts) by den, taken a few bits at a time.
RECURSIVE LongDiv(_, _, _, _)
LongDiv(q, r, den, shifts) ==
    IF shifts = <<>> THEN <<q, r>>
    ELSE LET p == 2^Head(shifts)
         IN  LongDiv(q * p + (r * p) \div den, (r * p) % den, den, Tail(shifts))

\* x / y.  0/0 is NaN.  A nonzero x over zero (an infinity) is not given a
\* value: no division of this program can produce it (normalize divides by
\* len > 0; intersect's numerator is zero whenever its 2a is).
FDiv(x, y) ==
    IF IsNaN(x) \/ IsNaN(y) THEN NaN
    ELSE IF IsZero(x) /\ IsZero(y) THEN NaN
    ELSE IF IsZero(x) THEN FZero
    ELSE LET qr == LongDiv(x[3] \div y[3], x[3] % y[3], y[3], <<6, 6, 6, 6, 2>>)
             s  == IF x[1] = y[1] THEN 0 ELSE 1
         IN  Norm(s, x[2] - y[2] - 27, Jam(2 * qr[1], qr[2] # 0))

\* Square root digit by digit: n is the radicand's integer part (26 bits),
\* j counts the bit pairs taken; pairs past the 13th are zero.
RECURSIVE SqrtBits(_, _, _, _)
SqrtBits(n, j, root, rem) ==
    IF j = 26 THEN <<root, rem>>
    ELSE LET pair  == IF j < 13 THEN (n \div 4^(12 - j)) % 4 ELSE 0
             cur   == rem * 4 + pair
             trial == root * 4 + 1
         IN  IF cur >= trial THEN SqrtBits(n, j + 1, root * 2 + 1, cur - trial)
             ELSE SqrtBits(n, j + 1, root * 2, cur)

FSqrt(x) ==
    IF IsNaN(x) THEN NaN
    ELSE IF IsZero(x) THEN FZero
    ELSE IF x[1] = 1 THEN NaN
    ELSE LET odd == x[2] % 2 # 0
             n   == IF odd THEN 2 * x[3] ELSE x[3]
             e   == IF odd THEN x[2] - 1 ELSE x[2]
             rr  == SqrtBits(n, 0, 0, 0)
         IN  Norm(0, e \div 2 - 14, Jam(2 * rr[1], rr[2] # 0))

\* x < y; any comparison with NaN is false.
FLess(x, y) ==
    IF IsNaN(x) \/ IsNaN(y) THEN FALSE
    ELSE IF IsZero(x) THEN (~IsZero(y) /\ y[1] = 0)
    ELSE IF IsZero(y) THEN x[1] = 1
    ELSE IF x[1] # y[1] THEN x[1] = 1
    ELSE IF x[1] = 0 THEN MagLess(x, y)
    ELSE MagLess(y, x)

FGreater(x, y) == FLess(y, x)

\* int -> float conversion.
IntToFloat(n) == IF n < 0 THEN Norm(1, 0, 0 - n) ELSE Norm(0, 0, n)

\* static_cast<int>: truncation toward zero (|x| < 2^31).
FloatToInt(x) ==
    IF IsZero(x) THEN 0
    ELSE LET mag == IF x[2] >= 0 THEN x[3] * 2^x[2]
                    ELSE IF x[2] < -24 THEN 0
                    ELSE x[3] \div 2^(0 - x[2])
         IN  IF x[1] = 1 THEN 0 - mag ELSE mag

(***************************************************************************)
(* struct Vec2 and the scene's globals.                                    *)
(***************************************************************************)
Vec2(x, y) == [x |-> x, y |-> y]

\* Vec2(int, int): each coordinate converted to float.
Vec2OfInts(x, y) == Vec2(IntToFloat(x), IntToFloat(y))

VAdd(u, v) == Vec2(FAdd(u.x, v.x), FAdd(u.y, v.y))

VSub(u, v) == Vec2(FSub(u.x, v.x), FSub(u.y, v.y))

VScale(v, s) == Vec2(FMul(v.x, s), FMul(v.y, s))

Length(v) == FSqrt(FAdd(FMul(v.x, v.x), FMul(v.y, v.y)))

Normalize(v) ==
    LET len == Length(v)
    IN  IF FGreater(len, FZero) THEN Vec2(FDiv(v.x, len), FDiv(v.y, len)) ELSE v

sphereCenter == Vec2OfInts(400, 300)

sphereRadius == IntToFloat(50)

InitialLightPos == Vec2OfInts(400, 300)

\* 0.001f
Epsilon == <<0, -33, 8589935>>

\* The value of a float that was declared and not assigned.
Indeterminate == <<3, 0, 0>>

(***************************************************************************)
(* intersect(rayOrigin, rayDir, t).                                        *)
(***************************************************************************)
\* The locals a, b, c and discriminant.
Quadratic(rayOrigin, rayDir) ==
    LET oc == VSub(rayOrigin, sphereCenter)
        a  == FAdd(FMul(rayDir.x, rayDir.x), FMul(rayDir.y, rayDir.y))
        b  == FMul(IntToFloat(2), FAdd(FMul(oc.x, rayDir.x), FMul(oc.y, rayDir.y)))
        c  == FSub(FAdd(FMul(oc.x, oc.x), FMul(oc.y, oc.y)),
                   FMul(sphereRadius, sphereRadius))
    IN  [a |-> a, b |-> b, c |-> c,
         discriminant |-> FSub(FMul(b, b), FMul(FMul(IntToFloat(4), a), c))]

\* t = (-b - sqrt(discriminant)) / (2a)
SmallerRoot(q) ==
    FDiv(FSub(FNeg(q.b), FSqrt(q.discriminant)), FMul(IntToFloat(2), q.a))

\* Faulty variants of intersect: the larger root taken, and the test of t
\* against 0.001 left out.
IntersectLargerRoot(rayOrigin, rayDir, t) ==
    LET q == Quadratic(rayOrigin, rayDir)
    IN  IF FLess(q.discriminant, FZero) THEN [hit |-> FALSE, t |-> t]
        ELSE LET root == FDiv(FAdd(FNeg(q.b), FSqrt(q.discriminant)),
                              FMul(IntToFloat(2), q.a))
             IN  [hit |-> FGreater(root, Epsilon), t |-> root]

IntersectNoEpsilonTest(rayOrigin, rayDir, t) ==
    LET q == Quadratic(rayOrigin, rayDir)
    IN  IF FLess(q.discriminant, FZero) THEN [hit |-> FALSE, t |-> t]
        ELSE [hit |-> TRUE, t |-> SmallerRoot(q)]

\* The result and the caller's t afterwards: t is assigned only when the
\* discriminant is not negative.
Intersect(rayOrigin, rayDir, t) ==
    LET q == Quadratic(rayOrigin, rayDir)
    IN  IF FLess(q.discriminant, FZero) THEN [hit |-> FALSE, t |-> t]
        ELSE LET root == SmallerRoot(q)
             IN  [hit |-> FGreater(root, Epsilon), t |-> root]

(***************************************************************************)
(* The ray fan: std::cos and std::sin of float(2 * M_PI * i / numRays),    *)
(* i = 0..359, as glibc's cosf and sinf return them on x86-64.             *)
(***************************************************************************)
numRays == 360

CosTable ==
    << <<0,-23,8388608>>, <<0,-24,16774661>>, <<0,-24,16766996>>, <<0,-24,16754223>>,
       <<0,-24,16736348>>, <<0,-24,16713374>>, <<0,-24,16685309>>, <<0,-24,16652161>>,
       <<0,-24,16613941>>, <<0,-24,16570661>>, <<0,-24,16522332>>, <<0,-24,16468971>>,
       <<0,-24,16410594>>, <<0,-24,16347217>>, <<0,-24,16278861>>, <<0,-24,16205546>>,
       <<0,-24,16127295>>, <<0,-24,16044132>>, <<0,-24,15956081>>, <<0,-24,15863169>>,
       <<0,-24,15765426>>, <<0,-24,15662880>>, <<0,-24,15555564>>, <<0,-24,15443509>>,
       <<0,-24,15326749>>, <<0,-24,15205321>>, <<0,-24,15079262>>, <<0,-24,14948609>>,
       <<0,-24,14813402>>, <<0,-24,14673684>>, <<0,-24,14529495>>, <<0,-24,14380881>>,
       <<0,-24,14227886>>, <<0,-24,14070557>>, <<0,-24,13908943>>, <<0,-24,13743091>>,
       <<0,-24,13573053>>, <<0,-24,13398881>>, <<0,-24,13220627>>, <<0,-24,13038345>>,
       <<0,-24,12852093>>, <<0,-24,12661926>>, <<0,-24,12467901>>, <<0,-24,12270079>>,
       <<0,-24,12068519>>, <<0,-24,11863283>>, <<0,-24,11654434>>, <<0,-24,11442034>>,
       <<0,-24,11226148>>, <<0,-24,11006844>>, <<0,-24,10784187>>, <<0,-24,10558244>>,
       <<0,-24,10329086>>, <<0,-24,10096781>>, <<0,-24,9861400>>, <<0,-24,9623016>>,
       <<0,-24,9381700>>, <<0,-24,9137526>>, <<0,-24,8890570>>, <<0,-24,8640905>>,
       <<0,-25,16777215>>, <<0,-25,16267510>>, <<0,-25,15752853>>, <<0,-25,15233394>>,
       <<0,-25,14709295>>, <<0,-25,14180715>>, <<0,-25,13647816>>, <<0,-25,13110759>>,
       <<0,-25,12569713>>, <<0,-25,12024834>>, <<0,-25,11476292>>, <<0,-25,10924254>>,
       <<0,-25,10368889>>, <<0,-25,9810365>>, <<0,-25,9248856>>, <<0,-25,8684527>>,
       <<0,-26,16235104>>, <<0,-26,15096209>>, <<0,-26,13952715>>, <<0,-26,12804971>>,
       <<0,-26,11653335>>, <<0,-26,10498141>>, <<0,-26,9339749>>, <<0,-27,16357024>>,
       <<0,-27,14029567>>, <<0,-27,11697854>>, <<0,-27,9362560>>, <<0,-28,14048831>>,
       <<0,-28,9368262>>, <<0,-29,9369677>>, <<1,-48,12303662>>, <<1,-29,9369660>>,
       <<1,-28,9368253>>, <<1,-28,14048822>>, <<1,-27,9362556>>, <<1,-27,11697849>>,
       <<1,-27,14029579>>, <<1,-27,16357019>>, <<1,-26,9339747>>, <<1,-26,10498138>>,
       <<1,-26,11653333>>, <<1,-26,12804977>>, <<1,-26,13952721>>, <<1,-26,15096207>>,
       <<1,-26,16235102>>, <<1,-25,8684526>>, <<1,-25,9248855>>, <<1,-25,9810368>>,
       <<1,-25,10368891>>, <<1,-25,10924253>>, <<1,-25,11476291>>, <<1,-25,12024833>>,
       <<1,-25,12569712>>, <<1,-25,13110762>>, <<1,-25,13647819>>, <<1,-25,14180718>>,
       <<1,-25,14709294>>, <<1,-25,15233397>>, <<1,-25,15752852>>, <<1,-25,16267509>>,
       <<1,-24,8388609>>, <<1,-24,8640904>>, <<1,-24,8890571>>, <<1,-24,9137527>>,
       <<1,-24,9381699>>, <<1,-24,9623016>>, <<1,-24,9861399>>, <<1,-24,10096782>>,
       <<1,-24,10329085>>, <<1,-24,10558243>>, <<1,-24,10784187>>, <<1,-24,11006843>>,
       <<1,-24,11226150>>, <<1,-24,11442033>>, <<1,-24,11654435>>, <<1,-24,11863283>>,
       <<1,-24,12068518>>, <<1,-24,12270080>>, <<1,-24,12467901>>, <<1,-24,12661927>>,
       <<1,-24,12852093>>, <<1,-24,13038344>>, <<1,-24,13220627>>, <<1,-24,13398880>>,
       <<1,-24,13573054>>, <<1,-24,13743091>>, <<1,-24,13908943>>, <<1,-24,14070557>>,
       <<1,-24,14227885>>, <<1,-24,14380881>>, <<1,-24,14529495>>, <<1,-24,14673685>>,
       <<1,-24,14813402>>, <<1,-24,14948608>>, <<1,-24,15079262>>, <<1,-24,15205321>>,
       <<1,-24,15326750>>, <<1,-24,15443509>>, <<1,-24,15555565>>, <<1,-24,15662881>>,
       <<1,-24,15765426>>, <<1,-24,15863170>>, <<1,-24,15956080>>, <<1,-24,16044132>>,
       <<1,-24,16127295>>, <<1,-24,16205546>>, <<1,-24,16278861>>, <<1,-24,16347217>>,
       <<1,-24,16410594>>, <<1,-24,16468971>>, <<1,-24,16522332>>, <<1,-24,16570661>>,
       <<1,-24,16613941>>, <<1,-24,16652161>>, <<1,-24,16685309>>, <<1,-24,16713374>>,
       <<1,-24,16736348>>, <<1,-24,16754223>>, <<1,-24,16766996>>, <<1,-24,16774661>>,
       <<1,-23,8388608>>, <<1,-24,16774661>>, <<1,-24,16766996>>, <<1,-24,16754223>>,
       <<1,-24,16736348>>, <<1,-24,16713374>>, <<1,-24,16685309>>, <<1,-24,16652161>>,
       <<1,-24,16613941>>, <<1,-24,16570661>>, <<1,-24,16522332>>, <<1,-24,16468971>>,
       <<1,-24,16410593>>, <<1,-24,16347217>>, <<1,-24,16278861>>, <<1,-24,16205546>>,
       <<1,-24,16127295>>, <<1,-24,16044131>>, <<1,-24,15956081>>, <<1,-24,15863169>>,
       <<1,-24,15765426>>, <<1,-24,15662881>>, <<1,-24,15555563>>, <<1,-24,15443509>>,
       <<1,-24,15326749>>, <<1,-24,15205322>>, <<1,-24,15079263>>, <<1,-24,14948609>>,
       <<1,-24,14813403>>, <<1,-24,14673683>>, <<1,-24,14529495>>, <<1,-24,14380882>>,
       <<1,-24,14227886>>, <<1,-24,14070558>>, <<1,-24,13908942>>, <<1,-24,13743091>>,
       <<1,-24,13573052>>, <<1,-24,13398880>>, <<1,-24,13220628>>, <<1,-24,13038345>>,
       <<1,-24,12852094>>, <<1,-24,12661925>>, <<1,-24,12467901>>, <<1,-24,12270080>>,
       <<1,-24,12068519>>, <<1,-24,11863284>>, <<1,-24,11654433>>, <<1,-24,11442034>>,
       <<1,-24,11226147>>, <<1,-24,11006844>>, <<1,-24,10784185>>, <<1,-24,10558243>>,
       <<1,-24,10329086>>, <<1,-24,10096783>>, <<1,-24,9861397>>, <<1,-24,9623014>>,
       <<1,-24,9381700>>, <<1,-24,9137528>>, <<1,-24,8890572>>, <<1,-24,8640902>>,
       <<1,-25,16777213>>, <<1,-25,16267511>>, <<1,-25,15752854>>, <<1,-25,15233399>>,
       <<1,-25,14709289>>, <<1,-25,14180713>>, <<1,-25,13647817>>, <<1,-25,13110764>>,
       <<1,-25,12569718>>, <<1,-25,12024827>>, <<1,-25,11476289>>, <<1,-25,10924255>>,
       <<1,-25,10368893>>, <<1,-25,9810373>>, <<1,-25,9248850>>, <<1,-25,8684524>>,
       <<1,-26,16235106>>, <<1,-26,15096218>>, <<1,-26,13952733>>, <<1,-26,12804965>>,
       <<1,-26,11653329>>, <<1,-26,10498143>>, <<1,-26,9339759>>, <<1,-27,16356996>>,
       <<1,-27,14029556>>, <<1,-27,11697842>>, <<1,-27,9362565>>, <<1,-28,14048871>>,
       <<1,-28,9368206>>, <<1,-29,9369630>>, <<0,-50,13426222>>, <<0,-29,9369643>>,
       <<0,-28,9368212>>, <<0,-28,14048878>>, <<0,-27,9362568>>, <<0,-27,11697845>>,
       <<0,-27,14029559>>, <<0,-27,16356999>>, <<0,-26,9339760>>, <<0,-26,10498144>>,
       <<0,-26,11653330>>, <<0,-26,12804967>>, <<0,-26,13952703>>, <<0,-26,15096220>>,
       <<0,-26,16235107>>, <<0,-25,8684525>>, <<0,-25,9248850>>, <<0,-25,9810359>>,
       <<0,-25,10368894>>, <<0,-25,10924256>>, <<0,-25,11476290>>, <<0,-25,12024828>>,
       <<0,-25,12569718>>, <<0,-25,13110765>>, <<0,-25,13647818>>, <<0,-25,14180713>>,
       <<0,-25,14709290>>, <<0,-25,15233399>>, <<0,-25,15752855>>, <<0,-25,16267512>>,
       <<0,-25,16777213>>, <<0,-24,8640902>>, <<0,-24,8890573>>, <<0,-24,9137528>>,
       <<0,-24,9381700>>, <<0,-24,9623014>>, <<0,-24,9861397>>, <<0,-24,10096783>>,
       <<0,-24,10329086>>, <<0,-24,10558244>>, <<0,-24,10784185>>, <<0,-24,11006841>>,
       <<0,-24,11226151>>, <<0,-24,11442034>>, <<0,-24,11654433>>, <<0,-24,11863281>>,
       <<0,-24,12068522>>, <<0,-24,12270081>>, <<0,-24,12467902>>, <<0,-24,12661925>>,
       <<0,-24,12852091>>, <<0,-24,13038348>>, <<0,-24,13220628>>, <<0,-24,13398881>>,
       <<0,-24,13573052>>, <<0,-24,13743089>>, <<0,-24,13908944>>, <<0,-24,14070558>>,
       <<0,-24,14227886>>, <<0,-24,14380880>>, <<0,-24,14529494>>, <<0,-24,14673685>>,
       <<0,-24,14813403>>, <<0,-24,14948609>>, <<0,-24,15079261>>, <<0,-24,15205320>>,
       <<0,-24,15326751>>, <<0,-24,15443509>>, <<0,-24,15555564>>, <<0,-24,15662880>>,
       <<0,-24,15765425>>, <<0,-24,15863170>>, <<0,-24,15956081>>, <<0,-24,16044131>>,
       <<0,-24,16127294>>, <<0,-24,16205547>>, <<0,-24,16278862>>, <<0,-24,16347217>>,
       <<0,-24,16410593>>, <<0,-24,16468971>>, <<0,-24,16522333>>, <<0,-24,16570661>>,
       <<0,-24,16613941>>, <<0,-24,16652161>>, <<0,-24,16685308>>, <<0,-24,16713374>>,
       <<0,-24,16736348>>, <<0,-24,16754223>>, <<0,-24,16766996>>, <<0,-24,16774661>> >>

SinTable ==
    << <<0,0,0>>, <<0,-29,9369689>>, <<0,-28,9368262>>, <<0,-28,14048827>>,
       <<0,-27,9362555>>, <<0,-27,11697845>>, <<0,-27,14029573>>, <<0,-27,16357027>>,
       <<0,-26,9339749>>, <<0,-26,10498140>>, <<0,-26,11653332>>, <<0,-26,12804975>>,
       <<0,-26,13952718>>, <<0,-26,15096210>>, <<0,-26,16235104>>, <<0,-25,8684526>>,
       <<0,-25,9248855>>, <<0,-25,9810366>>, <<0,-25,10368890>>, <<0,-25,10924255>>,
       <<0,-25,11476291>>, <<0,-25,12024833>>, <<0,-25,12569712>>, <<0,-25,13110761>>,
       <<0,-25,13647817>>, <<0,-25,14180716>>, <<0,-25,14709295>>, <<0,-25,15233394>>,
       <<0,-25,15752852>>, <<0,-25,16267511>>, <<0,-24,8388608>>, <<0,-24,8640905>>,
       <<0,-24,8890570>>, <<0,-24,9137527>>, <<0,-24,9381700>>, <<0,-24,9623016>>,
       <<0,-24,9861400>>, <<0,-24,10096780>>, <<0,-24,10329086>>, <<0,-24,10558244>>,
       <<0,-24,10784186>>, <<0,-24,11006844>>, <<0,-24,11226149>>, <<0,-24,11442034>>,
       <<0,-24,11654434>>, <<0,-24,11863283>>, <<0,-24,12068519>>, <<0,-24,12270079>>,
       <<0,-24,12467902>>, <<0,-24,12661925>>, <<0,-24,12852093>>, <<0,-24,13038346>>,
       <<0,-24,13220626>>, <<0,-24,13398881>>, <<0,-24,13573053>>, <<0,-24,13743091>>,
       <<0,-24,13908942>>, <<0,-24,14070558>>, <<0,-24,14227886>>, <<0,-24,14380881>>,
       <<0,-24,14529496>>, <<0,-24,14673684>>, <<0,-24,14813402>>, <<0,-24,14948609>>,
       <<0,-24,15079262>>, <<0,-24,15205322>>, <<0,-24,15326750>>, <<0,-24,15443509>>,
       <<0,-24,15555564>>, <<0,-24,15662880>>, <<0,-24,15765426>>, <<0,-24,15863169>>,
       <<0,-24,15956081>>, <<0,-24,16044132>>, <<0,-24,16127295>>, <<0,-24,16205546>>,
       <<0,-24,16278861>>, <<0,-24,16347217>>, <<0,-24,16410594>>, <<0,-24,16468971>>,
       <<0,-24,16522332>>, <<0,-24,16570661>>, <<0,-24,16613941>>, <<0,-24,16652161>>,
       <<0,-24,16685309>>, <<0,-24,16713374>>, <<0,-24,16736348>>, <<0,-24,16754223>>,
       <<0,-24,16766996>>, <<0,-24,16774661>>, <<0,-23,8388608>>, <<0,-24,16774661>>,
       <<0,-24,16766996>>, <<0,-24,16754223>>, <<0,-24,16736348>>, <<0,-24,16713374>>,
       <<0,-24,16685309>>, <<0,-24,16652161>>, <<0,-24,16613941>>, <<0,-24,16570661>>,
       <<0,-24,16522332>>, <<0,-24,16468971>>, <<0,-24,16410593>>, <<0,-24,16347217>>,
       <<0,-24,16278861>>, <<0,-24,16205546>>, <<0,-24,16127295>>, <<0,-24,16044131>>,
       <<0,-24,15956080>>, <<0,-24,15863170>>, <<0,-24,15765426>>, <<0,-24,15662881>>,
       <<0,-24,15555564>>, <<0,-24,15443509>>, <<0,-24,15326749>>, <<0,-24,15205321>>,
       <<0,-24,15079262>>, <<0,-24,14948608>>, <<0,-24,14813402>>, <<0,-24,14673684>>,
       <<0,-24,14529495>>, <<0,-24,14380881>>, <<0,-24,14227885>>, <<0,-24,14070557>>,
       <<0,-24,13908943>>, <<0,-24,13743090>>, <<0,-24,13573053>>, <<0,-24,13398880>>,
       <<0,-24,13220627>>, <<0,-24,13038347>>, <<0,-24,12852093>>, <<0,-24,12661926>>,
       <<0,-24,12467901>>, <<0,-24,12270079>>, <<0,-24,12068518>>, <<0,-24,11863283>>,
       <<0,-24,11654435>>, <<0,-24,11442033>>, <<0,-24,11226149>>, <<0,-24,11006843>>,
       <<0,-24,10784187>>, <<0,-24,10558246>>, <<0,-24,10329085>>, <<0,-24,10096782>>,
       <<0,-24,9861399>>, <<0,-24,9623016>>, <<0,-24,9381699>>, <<0,-24,9137527>>,
       <<0,-24,8890571>>, <<0,-24,8640904>>, <<0,-24,8388609>>, <<0,-25,16267509>>,
       <<0,-25,15752852>>, <<0,-25,15233396>>, <<0,-25,14709294>>, <<0,-25,14180718>>,
       <<0,-25,13647815>>, <<0,-25,13110762>>, <<0,-25,12569708>>, <<0,-25,12024832>>,
       <<0,-25,11476294>>, <<0,-25,10924253>>, <<0,-25,10368891>>, <<0,-25,9810363>>,
       <<0,-25,9248855>>, <<0,-25,8684529>>, <<0,-26,16235101>>, <<0,-26,15096214>>,
       <<0,-26,13952712>>, <<0,-26,12804976>>, <<0,-26,11653340>>, <<0,-26,10498138>>,
       <<0,-26,9339754>>, <<0,-27,16357018>>, <<0,-27,14029577>>, <<0,-27,11697832>>,
       <<0,-27,9362555>>, <<0,-28,14048851>>, <<0,-28,9368250>>, <<0,-29,9369717>>,
       <<1,-47,12303662>>, <<1,-29,9369683>>, <<1,-28,9368233>>, <<1,-28,14048834>>,
       <<1,-27,9362546>>, <<1,-27,11697855>>, <<1,-27,14029569>>, <<1,-27,16357041>>,
       <<1,-26,9339750>>, <<1,-26,10498133>>, <<1,-26,11653335>>, <<1,-26,12804972>>,
       <<1,-26,13952724>>, <<1,-26,15096209>>, <<1,-26,16235097>>, <<1,-25,8684527>>,
       <<1,-25,9248853>>, <<1,-25,9810369>>, <<1,-25,10368889>>, <<1,-25,10924258>>,
       <<1,-25,11476292>>, <<1,-25,12024830>>, <<1,-25,12569713>>, <<1,-25,13110760>>,
       <<1,-25,13647820>>, <<1,-25,14180716>>, <<1,-25,14709292>>, <<1,-25,15233395>>,
       <<1,-25,15752850>>, <<1,-25,16267514>>, <<1,-25,16777215>>, <<1,-24,8640903>>,
       <<1,-24,8890570>>, <<1,-24,9137526>>, <<1,-24,9381701>>, <<1,-24,9623015>>,
       <<1,-24,9861402>>, <<1,-24,10096781>>, <<1,-24,10329084>>, <<1,-24,10558245>>,
       <<1,-24,10784186>>, <<1,-24,11006845>>, <<1,-24,11226149>>, <<1,-24,11442032>>,
       <<1,-24,11654434>>, <<1,-24,11863282>>, <<1,-24,12068520>>, <<1,-24,12270079>>,
       <<1,-24,12467902>>, <<1,-24,12661926>>, <<1,-24,12852095>>, <<1,-24,13038346>>,
       <<1,-24,13220626>>, <<1,-24,13398879>>, <<1,-24,13573055>>, <<1,-24,13743092>>,
       <<1,-24,13908943>>, <<1,-24,14070557>>, <<1,-24,14227885>>, <<1,-24,14380883>>,
       <<1,-24,14529496>>, <<1,-24,14673684>>, <<1,-24,14813402>>, <<1,-24,14948608>>,
       <<1,-24,15079263>>, <<1,-24,15205322>>, <<1,-24,15326749>>, <<1,-24,15443508>>,
       <<1,-24,15555563>>, <<1,-24,15662882>>, <<1,-24,15765427>>, <<1,-24,15863169>>,
       <<1,-24,15956080>>, <<1,-24,16044130>>, <<1,-24,16127296>>, <<1,-24,16205547>>,
       <<1,-24,16278861>>, <<1,-24,16347217>>, <<1,-24,16410593>>, <<1,-24,16468972>>,
       <<1,-24,16522333>>, <<1,-24,16570660>>, <<1,-24,16613941>>, <<1,-24,16652162>>,
       <<1,-24,16685309>>, <<1,-24,16713374>>, <<1,-24,16736347>>, <<1,-24,16754223>>,
       <<1,-24,16766996>>, <<1,-24,16774661>>, <<1,-23,8388608>>, <<1,-24,16774661>>,
       <<1,-24,16766996>>, <<1,-24,16754223>>, <<1,-24,16736347>>, <<1,-24,16713374>>,
       <<1,-24,16685309>>, <<1,-24,16652162>>, <<1,-24,16613941>>, <<1,-24,16570660>>,
       <<1,-24,16522332>>, <<1,-24,16468972>>, <<1,-24,16410594>>, <<1,-24,16347216>>,
       <<1,-24,16278861>>, <<1,-24,16205546>>, <<1,-24,16127296>>, <<1,-24,16044133>>,
       <<1,-24,15956080>>, <<1,-24,15863169>>, <<1,-24,15765426>>, <<1,-24,15662881>>,
       <<1,-24,15555562>>, <<1,-24,15443508>>, <<1,-24,15326749>>, <<1,-24,15205322>>,
       <<1,-24,15079263>>, <<1,-24,14948607>>, <<1,-24,14813402>>, <<1,-24,14673684>>,
       <<1,-24,14529496>>, <<1,-24,14380883>>, <<1,-24,14227884>>, <<1,-24,14070556>>,
       <<1,-24,13908943>>, <<1,-24,13743092>>, <<1,-24,13573055>>, <<1,-24,13398879>>,
       <<1,-24,13220626>>, <<1,-24,13038346>>, <<1,-24,12852094>>, <<1,-24,12661928>>,
       <<1,-24,12467900>>, <<1,-24,12270078>>, <<1,-24,12068520>>, <<1,-24,11863285>>,
       <<1,-24,11654431>>, <<1,-24,11442032>>, <<1,-24,11226148>>, <<1,-24,11006845>>,
       <<1,-24,10784189>>, <<1,-24,10558241>>, <<1,-24,10329084>>, <<1,-24,10096780>>,
       <<1,-24,9861401>>, <<1,-24,9623018>>, <<1,-24,9381697>>, <<1,-24,9137525>>,
       <<1,-24,8890570>>, <<1,-24,8640906>>, <<1,-24,8388611>>, <<1,-25,16267506>>,
       <<1,-25,15752849>>, <<1,-25,15233394>>, <<1,-25,14709298>>, <<1,-25,14180722>>,
       <<1,-25,13647812>>, <<1,-25,13110759>>, <<1,-25,12569713>>, <<1,-25,12024837>>,
       <<1,-25,11476299>>, <<1,-25,10924250>>, <<1,-25,10368888>>, <<1,-25,9810368>>,
       <<1,-25,9248860>>, <<1,-25,8684519>>, <<1,-26,16235095>>, <<1,-26,15096208>>,
       <<1,-26,13952722>>, <<1,-26,12804986>>, <<1,-26,11653318>>, <<1,-26,10498132>>,
       <<1,-26,9339748>>, <<1,-27,16357038>>, <<1,-27,14029598>>, <<1,-27,11697820>>,
       <<1,-27,9362543>>, <<1,-28,14048828>>, <<1,-28,9368290>>, <<1,-29,9369798>> >>

RayDir(i) == Vec2(CosTable[i + 1], SinTable[i + 1])

maxRayLength == IntToFloat(1000)

HitAlpha == 100

MissAlpha == 50

PickRadius == 20

\* A faulty variant: the alphas of hit and miss exchanged.
RaySegmentSwapsAlpha(origin, rayDir, res) ==
    LET end == IF res.hit THEN VAdd(origin, VScale(rayDir, res.t))
               ELSE VAdd(origin, VScale(rayDir, maxRayLength))
    IN  [op |-> "line",
         p |-> <<FloatToInt(origin.x), FloatToInt(origin.y),
                 FloatToInt(end.x), FloatToInt(end.y)>>,
         rgba |-> <<255, 255, 0, IF res.hit THEN MissAlpha ELSE HitAlpha>>]

\* The SDL_RenderDrawLine call of ray i from lightPos: its int arguments
\* and the alpha of the draw colour set before it.
RaySegment(origin, rayDir, res) ==
    LET end == IF res.hit THEN VAdd(origin, VScale(rayDir, res.t))
               ELSE VAdd(origin, VScale(rayDir, maxRayLength))
    IN  [op |-> "line",
         p |-> <<FloatToInt(origin.x), FloatToInt(origin.y),
                 FloatToInt(end.x), FloatToInt(end.y)>>,
         rgba |-> <<255, 255, 0, IF res.hit THEN HitAlpha ELSE MissAlpha>>]

\* The calls of the ray loop, in the order of i = 0 .. numRays - 1.
RayFan(origin) ==
    [k \in 1..numRays |->
        RaySegment(origin, RayDir(k - 1),
                   Intersect(origin, RayDir(k - 1), Indeterminate))]

\* drawCircle(renderer, center, radius): the 32 segments of one outline,
\* kept as one call.
CircleCall(center, radius, rgba) ==
    [op |-> "circle",
     p |-> <<FloatToInt(center.x), FloatToInt(center.y), FloatToInt(radius)>>,
     rgba |-> rgba]

ClearCall == [op |-> "clear", p |-> <<>>, rgba |-> <<30, 30, 30, 255>>]

(***************************************************************************)
(* Input.  The pointer positions the environment sends.                    *)
(***************************************************************************)
MaxEvents == 2

Points == {<<400, 300>>, <<410, 300>>, <<412, 316>>, <<430, 300>>,
           <<300, 300>>, <<0, 0>>}

NoEvent == [type |-> "none", x |-> 0, y |-> 0]

MouseEvents ==
    {[type |-> ty, x |-> pt[1], y |-> pt[2]] :
        ty \in {"down", "up", "motion"}, pt \in Points}

QuitEvent == [type |-> "quit", x |-> 0, y |-> 0]

\* An event of a type the loop has no branch for (a key press).
OtherEvent == [type |-> "other", x |-> 0, y |-> 0]

\* What SDL_PollEvent can deliver: without a window there is no pointer
\* input, and SDL_QUIT can still be raised by a signal.
Deliverable(window) ==
    IF window = "open" THEN MouseEvents \cup {QuitEvent, OtherEvent}
    ELSE {QuitEvent}

(***************************************************************************)
(* main(): the body of the event loop for one polled event.                *)
(***************************************************************************)
\* Faulty variants of the loop body: the pointer's axes swapped, the light
\* moved without a drag, SDL_QUIT ignored.
HandleEventSwapsAxes(e, light, dragging, run) ==
    LET picked == e.type = "down"
                  /\ FLess(Length(VSub(Vec2OfInts(e.x, e.y), light)),
                           IntToFloat(PickRadius))
        drag   == IF e.type = "up" THEN FALSE ELSE (dragging \/ picked)
    IN  [running       |-> IF e.type = "quit" THEN FALSE ELSE run,
         draggingLight |-> drag,
         lightPos      |-> IF e.type = "motion" /\ drag
                           THEN Vec2OfInts(e.y, e.x) ELSE light]

HandleEventMovesUndragged(e, light, dragging, run) ==
    LET picked == e.type = "down"
                  /\ FLess(Length(VSub(Vec2OfInts(e.x, e.y), light)),
                           IntToFloat(PickRadius))
        drag   == IF e.type = "up" THEN FALSE ELSE (dragging \/ picked)
    IN  [running       |-> IF e.type = "quit" THEN FALSE ELSE run,
         draggingLight |-> drag,
         lightPos      |-> IF e.type = "motion"
                           THEN Vec2OfInts(e.x, e.y) ELSE light]

HandleEventIgnoresQuit(e, light, dragging, run) ==
    LET picked == e.type = "down"
                  /\ FLess(Length(VSub(Vec2OfInts(e.x, e.y), light)),
                           IntToFloat(PickRadius))
        drag   == IF e.type = "up" THEN FALSE ELSE (dragging \/ picked)
    IN  [running       |-> run,
         draggingLight |-> drag,
         lightPos      |-> IF e.type = "motion" /\ drag
                           THEN Vec2OfInts(e.x, e.y) ELSE light]

\* The four ifs in order: SDL_QUIT, SDL_MOUSEBUTTONDOWN, SDL_MOUSEBUTTONUP,
\* SDL_MOUSEMOTION && draggingLight.
HandleEvent(e, light, dragging, run) ==
    LET picked == e.type = "down"
                  /\ FLess(Length(VSub(Vec2OfInts(e.x, e.y), light)),
                           IntToFloat(PickRadius))
        drag   == IF e.type = "up" THEN FALSE ELSE (dragging \/ picked)
    IN  [running       |-> IF e.type = "quit" THEN FALSE ELSE run,
         draggingLight |-> drag,
         lightPos      |-> IF e.type = "motion" /\ drag
                           THEN Vec2OfInts(e.x, e.y) ELSE light]

(***************************************************************************)
(* The program state.                                                      *)
(*   pc            the program point of main()                             *)
(*   sdl           what SDL_Init, SDL_CreateWindow and SDL_CreateRenderer  *)
(*                 returned                                                *)
(*   released      how often each of the three was released                *)
(*   lightPos, draggingLight, running   the globals and the loop flag      *)
(*   event, polled the last event polled and the events polled this frame  *)
(*   dir, t, hit   intersect's rayDir, its t and its result, for the       *)
(*                 specification of the kernel alone                       *)
(*   drawCalls     the renderer's queue: the draw calls issued and not yet *)
(*                 flushed by SDL_RenderPresent                            *)
(***************************************************************************)
VARIABLES pc, sdl, released, lightPos, draggingLight, running, event, polled,
          dir, t, hit, drawCalls

vars == <<pc, sdl, released, lightPos, draggingLight, running, event, polled,
          dir, t, hit, drawCalls>>

NoDir == Vec2(Indeterminate, Indeterminate)

Init ==
    /\ pc = "start"
    /\ sdl = [init |-> FALSE, window |-> "null", renderer |-> "null"]
    /\ released = [renderer |-> 0, window |-> 0, sdl |-> 0]
    /\ lightPos = InitialLightPos
    /\ draggingLight = FALSE
    /\ running = TRUE
    /\ event = NoEvent
    /\ polled = 0
    /\ dir = NoDir
    /\ t = Indeterminate
    /\ hit = FALSE
    /\ drawCalls = <<>>

\* SDL_Init, SDL_CreateWindow, SDL_CreateRenderer, SDL_SetRenderDrawBlendMode
\* and running = true.  No return value is tested.
StartupOutcomes ==
    {[init |-> TRUE, window |-> "open", renderer |-> "ready"],
     [init |-> TRUE, window |-> "open", renderer |-> "null"],
     [init |-> TRUE, window |-> "null", renderer |-> "null"],
     [init |-> FALSE, window |-> "null", renderer |-> "null"]}

Startup ==
    /\ pc = "start"
    /\ sdl' \in StartupOutcomes
    /\ running' = TRUE
    /\ pc' = "while"
    /\ UNCHANGED <<released, lightPos, draggingLight, event, polled, dir, t,
                   hit, drawCalls>>

\* while (running), and the declaration of event.
LoopTest ==
    /\ pc = "while"
    /\ pc' = IF running THEN "poll" ELSE "destroyRenderer"
    /\ event' = NoEvent
    /\ polled' = 0
    /\ UNCHANGED <<sdl, released, lightPos, draggingLight, running, dir, t,
                   hit, drawCalls>>

\* while (SDL_PollEvent(&event)) { ... }: one event is polled and handled.
PollEvent ==
    /\ pc = "poll"
    /\ polled < MaxEvents
    /\ \E e \in Deliverable(sdl.window) :
         LET after == HandleEvent(e, lightPos, draggingLight, running)
         IN  /\ event' = e
             /\ running' = after.running
             /\ draggingLight' = after.draggingLight
             /\ lightPos' = after.lightPos
    /\ polled' = polled + 1
    /\ UNCHANGED <<pc, sdl, released, dir, t, hit, drawCalls>>

\* SDL_PollEvent returns 0: the queue is empty.  event is not read again.
QueueEmpty ==
    /\ pc = "poll"
    /\ pc' = "clear"
    /\ event' = NoEvent
    /\ polled' = 0
    /\ UNCHANGED <<sdl, released, lightPos, draggingLight, running, dir, t,
                   hit, drawCalls>>

\* SDL_SetRenderDrawColor(30, 30, 30, 255); SDL_RenderClear.
Clear ==
    /\ pc = "clear"
    /\ drawCalls' = <<ClearCall>>
    /\ pc' = "obstacle"
    /\ UNCHANGED <<sdl, released, lightPos, draggingLight, running, event,
                   polled, dir, t, hit>>

\* A faulty variant: the light marker drawn right after the obstacle.
ObstacleSkipsRays ==
    /\ pc = "obstacle"
    /\ drawCalls' = Append(drawCalls,
                           CircleCall(sphereCenter, sphereRadius, <<0, 120, 200, 255>>))
    /\ pc' = "light"
    /\ UNCHANGED <<sdl, released, lightPos, draggingLight, running, event,
                   polled, dir, t, hit>>

\* SDL_SetRenderDrawColor(0, 120, 200, 255); drawCircle(sphereCenter,
\* sphereRadius); then the ray loop starts with i = 0.
Obstacle ==
    /\ pc = "obstacle"
    /\ drawCalls' = Append(drawCalls,
                           CircleCall(sphereCenter, sphereRadius, <<0, 120, 200, 255>>))
    /\ pc' = "rays"
    /\ UNCHANGED <<sdl, released, lightPos, draggingLight, running, event,
                   polled, dir, t, hit>>

\* for (int i = 0; i < numRays; ++i) { ... }: the whole loop, one
\* SDL_RenderDrawLine per i in increasing order.
CastRays ==
    /\ pc = "rays"
    /\ drawCalls' = drawCalls \o RayFan(lightPos)
    /\ pc' = "light"
    /\ UNCHANGED <<sdl, released, lightPos, draggingLight, running, event,
                   polled, dir, t, hit>>

\* SDL_SetRenderDrawColor(255, 255, 0, 255); drawCircle(lightPos, 20).
Light ==
    /\ pc = "light"
    /\ drawCalls' = Append(drawCalls,
                           CircleCall(lightPos, IntToFloat(20), <<255, 255, 0, 255>>))
    /\ pc' = "present"
    /\ UNCHANGED <<sdl, released, lightPos, draggingLight, running, event,
                   polled, dir, t, hit>>

\* SDL_RenderPresent: the queued calls are flushed to the display.
Present ==
    /\ pc = "present"
    /\ drawCalls' = <<>>
    /\ pc' = "while"
    /\ UNCHANGED <<sdl, released, lightPos, draggingLight, running, event,
                   polled, dir, t, hit>>

DestroyRenderer ==
    /\ pc = "destroyRenderer"
    /\ released' = [released EXCEPT !.renderer = @ + 1]
    /\ pc' = "destroyWindow"
    /\ UNCHANGED <<sdl, lightPos, draggingLight, running, event, polled, dir, t, hit, drawCalls>>

DestroyWindow ==
    /\ pc = "destroyWindow"
    /\ released' = [released EXCEPT !.window = @ + 1]
    /\ pc' = "quit"
    /\ UNCHANGED <<sdl, lightPos, draggingLight, running, event, polled, dir, t, hit, drawCalls>>

\* SDL_Quit(); return 0.
Quit ==
    /\ pc = "quit"
    /\ released' = [released EXCEPT !.sdl = @ + 1]
    /\ pc' = "done"
    /\ UNCHANGED <<sdl, lightPos, draggingLight, running, event, polled, dir, t, hit, drawCalls>>

Next ==
    \/ Startup
    \/ LoopTest
    \/ PollEvent
    \/ QueueEmpty
    \/ Clear
    \/ Obstacle
    \/ CastRays
    \/ Light
    \/ Present
    \/ DestroyRenderer
    \/ DestroyWindow
    \/ Quit

Spec == Init /\ [][Next]_vars

(***************************************************************************)
(* The kernel alone: intersect applied to one origin and one direction.    *)
(* lightPos is the rayOrigin; origins have the int coordinates the pointer *)
(* can give the light, over the 800 x 600 window.                          *)
(***************************************************************************)
GridSteps == 8

WindowWidth == 800

WindowHeight == 600

GridOrigins ==
    {<<gx * (WindowWidth \div GridSteps), gy * (WindowHeight \div GridSteps)>> :
        gx \in 0..GridSteps, gy \in 0..GridSteps}

\* Origins on the circle, just outside it and inside it.
NearOrigins ==
    {<<450, 300>>, <<451, 300>>, <<430, 340>>, <<431, 341>>, <<400, 351>>,
     <<400, 249>>, <<349, 300>>, <<410, 300>>, <<300, 300>>, <<0, 0>>,
     <<400, 300>>}

KernelOrigins == {Vec2OfInts(o[1], o[2]) : o \in GridOrigins \cup NearOrigins}

SampleRays == {0, 37, 45, 90, 143, 180, 217, 270, 315}

KernelDirs(origin) ==
    {Normalize(VSub(sphereCenter, origin)), Normalize(VSub(origin, sphereCenter)),
     Vec2(FZero, FZero), Vec2OfInts(3, 4), Vec2OfInts(-2, 0)}
    \cup {RayDir(k) : k \in SampleRays}

KernelInit ==
    /\ pc = "call"
    /\ lightPos \in KernelOrigins
    /\ dir \in KernelDirs(lightPos)
    /\ t = Indeterminate
    /\ hit = FALSE
    /\ sdl = [init |-> FALSE, window |-> "null", renderer |-> "null"]
    /\ released = [renderer |-> 0, window |-> 0, sdl |-> 0]
    /\ draggingLight = FALSE
    /\ running = TRUE
    /\ event = NoEvent
    /\ polled = 0
    /\ drawCalls = <<>>

\* if (intersect(lightPos, dir, t)) ...
KernelCall ==
    /\ pc = "call"
    /\ LET res == Intersect(lightPos, dir, t)
       IN  /\ hit' = res.hit
           /\ t' = res.t
    /\ pc' = "return"
    /\ UNCHANGED <<sdl, released, lightPos, draggingLight, running, event,
                   polled, dir, drawCalls>>

KernelNext == KernelCall

KernelSpec == KernelInit /\ [][KernelNext]_vars

(***************************************************************************)
(* Vocabulary of the properties.                                           *)
(***************************************************************************)
\* The tolerance of the approximate equalities: 0.01.
Tol == FDiv(IntToFloat(1), IntToFloat(100))

FAbs(x) == IF IsNaN(x) \/ IsZero(x) THEN x ELSE <<0, x[2], x[3]>>

\* |x - y| <= Tol
Approx(x, y) == ~IsNaN(x) /\ x # Indeterminate /\ ~FGreater(FAbs(FSub(x, y)), Tol)

NonNegative(x) == ~IsNaN(x) /\ ~FLess(x, FZero)

\* The squared distance, in exact integers, between an event's position and
\* the light (whose coordinates are whole numbers).
DistSq(e, light) ==
    (e.x - FloatToInt(light.x)) * (e.x - FloatToInt(light.x))
    + (e.y - FloatToInt(light.y)) * (e.y - FloatToInt(light.y))

\* A step of the event loop that polls and handles event'.
Handled == pc = "poll" /\ polled' = polled + 1

LightAt(e, light) == FloatToInt(light.x) = e.x /\ FloatToInt(light.y) = e.y

InitFailed == ~sdl.init \/ sdl.window = "null" \/ sdl.renderer = "null"

FramePcs == {"poll", "clear", "obstacle", "rays", "light", "present"}

\* The k-th ray call of a queue that holds the ray fan, k in 1..numRays.
Seg(k) == drawCalls[2 + k]

RayResult(k) == Intersect(lightPos, RayDir(k - 1), Indeterminate)

FanQueued == Len(drawCalls) >= 2 + numRays

HeadOn == dir = Normalize(VSub(sphereCenter, lightPos))

Away == dir = Normalize(VSub(lightPos, sphereCenter))

Dist == Length(VSub(lightPos, sphereCenter))

Outside == FGreater(Dist, sphereRadius)

(***************************************************************************)
(* C1.  As stated: a pointer-down within 20 units of the light (distance   *)
(* <= 20) starts the drag; a pointer-move while dragging puts the light    *)
(* exactly on the pointer; a pointer-up always ends the drag.              *)
(***************************************************************************)
C1_Original ==
    [][Handled =>
        /\ (event'.type = "down" /\ DistSq(event', lightPos) <= 400)
              => draggingLight'
        /\ (event'.type = "motion" /\ draggingLight)
              => (LightAt(event', lightPos')
                  /\ lightPos' = Vec2OfInts(event'.x, event'.y))
        /\ event'.type = "up" => ~draggingLight']_vars

\* C1 as amended: the pick needs a distance strictly below 20 units; a
\* pointer-down at exactly 20 units does not start a drag.
C1_Amended ==
    [][Handled =>
        /\ (event'.type = "down" /\ DistSq(event', lightPos) < 400)
              => draggingLight'
        /\ (event'.type = "motion" /\ draggingLight)
              => (LightAt(event', lightPos')
                  /\ lightPos' = Vec2OfInts(event'.x, event'.y))
        /\ event'.type = "up" => ~draggingLight']_vars

\* A pointer-move has just carried the dragged light away from its start.
C1_Witness ==
    /\ pc = "poll"
    /\ event.type = "motion"
    /\ draggingLight
    /\ LightAt(event, lightPos)
    /\ lightPos # InitialLightPos

(***************************************************************************)
(* C2.  Missed pick: with no drag in progress, a pointer-down more than 20 *)
(* units from the light leaves draggingLight false; draggingLight then     *)
(* stays false until a pointer-down lands within the pick radius, and      *)
(* while it is false no pointer-move changes lightPos.                     *)
(***************************************************************************)
C2_MissedPick ==
    [][(Handled /\ ~draggingLight) =>
        /\ (event'.type = "down" /\ DistSq(event', lightPos) > 400)
              => ~draggingLight'
        /\ ~(event'.type = "down" /\ DistSq(event', lightPos) <= 400)
              => ~draggingLight'
        /\ event'.type = "motion" => lightPos' = lightPos]_vars

\* A pointer-down more than 20 units from the light was handled and no
\* drag is in progress (a pointer-down never ends one, so none was).
C2_Witness ==
    /\ pc = "poll"
    /\ event.type = "down"
    /\ DistSq(event, lightPos) > 400
    /\ ~draggingLight

(***************************************************************************)
(* C3.  As stated: with the light on the circle's centre (the start-up     *)
(* state) each of the 360 rays of a frame is a hit at distance about 50.   *)
(***************************************************************************)
C3_Original ==
    (FanQueued /\ lightPos = sphereCenter) =>
        \A k \in 1..numRays :
            /\ RayResult(k).hit
            /\ Approx(RayResult(k).t, IntToFloat(50))
            /\ Seg(k).rgba[4] = 100

\* C3 as amended: with the light on the centre each of the 360 rays is a
\* miss: the discriminant is not negative, but the smaller root is about
\* -50 and fails t > 0.001, so every ray is drawn as a miss segment.
C3_Amended ==
    (FanQueued /\ lightPos = sphereCenter) =>
        \A k \in 1..numRays :
            /\ ~RayResult(k).hit
            /\ NonNegative(Quadratic(lightPos, RayDir(k - 1)).discriminant)
            /\ Approx(RayResult(k).t, IntToFloat(-50))
            /\ Seg(k).rgba[4] = 50

\* The ray fan of a frame drawn with the light on the centre.
C3_Witness ==
    /\ pc = "light"
    /\ lightPos = sphereCenter
    /\ Len(drawCalls) = 2 + numRays

(***************************************************************************)
(* C4.  Head-on ray: from an origin at distance d > radius, with the       *)
(* direction normalised toward the centre, intersect reports a hit with t  *)
(* within tolerance of d - radius; from (0,0) the distance is 450.         *)
(***************************************************************************)
C4_HeadOn ==
    (pc = "return" /\ HeadOn /\ Outside) =>
        /\ hit
        /\ Approx(t, FSub(Dist, sphereRadius))
        /\ lightPos = Vec2OfInts(0, 0) => Approx(t, IntToFloat(450))

\* The head-on ray from (0,0) has been tested and hit.
C4_Witness ==
    /\ pc = "return"
    /\ lightPos = Vec2OfInts(0, 0)
    /\ HeadOn
    /\ hit

(***************************************************************************)
(* C5.  Ray pointing away: from an origin strictly outside the circle,     *)
(* with the direction normalised away from the centre, intersect reports   *)
(* no intersection although the discriminant is not negative: both roots   *)
(* are negative.                                                           *)
(***************************************************************************)
C5_Away ==
    (pc = "return" /\ Away /\ Outside) =>
        LET q == Quadratic(lightPos, dir)
        IN  /\ ~hit
            /\ NonNegative(q.discriminant)
            /\ FLess(t, FZero)
            /\ FLess(FDiv(FAdd(FNeg(q.b), FSqrt(q.discriminant)),
                          FMul(IntToFloat(2), q.a)), FZero)

\* The ray from (0,0) directly away from the circle has been tested.
C5_Witness ==
    /\ pc = "return"
    /\ lightPos = Vec2OfInts(0, 0)
    /\ Away
    /\ ~hit

(***************************************************************************)
(* C6.  Acceptance rule: intersect reports a hit exactly when the          *)
(* discriminant is not negative and the smaller root exceeds 0.001; a      *)
(* negative discriminant is a miss, a root <= 0.001 is a miss, and a hit   *)
(* carries that root, never a t <= 0.001.                                  *)
(***************************************************************************)
C6_Acceptance ==
    pc = "return" =>
        LET q == Quadratic(lightPos, dir)
        IN  /\ hit <=> (NonNegative(q.discriminant)
                        /\ FGreater(SmallerRoot(q), Epsilon))
            /\ FLess(q.discriminant, FZero) => ~hit
            /\ hit => (t = SmallerRoot(q) /\ FGreater(t, Epsilon))
            /\ (NonNegative(q.discriminant) /\ ~FGreater(t, Epsilon)) => ~hit

\* A root was computed from a non-negative discriminant and rejected.
C6_Witness ==
    /\ pc = "return"
    /\ NonNegative(Quadratic(lightPos, dir).discriminant)
    /\ t # Indeterminate
    /\ ~FGreater(t, Epsilon)
    /\ ~hit

(***************************************************************************)
(* C7.  As stated: when SDL_Init, the window or the renderer fails, the    *)
(* frame loop is never entered: no event is polled and nothing is drawn.   *)
(***************************************************************************)
C7_InitFailureAborts ==
    (pc # "start" /\ InitFailed) => (pc \notin FramePcs /\ drawCalls = <<>>)

(***************************************************************************)
(* C8.  Shutdown on window close: a polled SDL_QUIT clears running, which  *)
(* then stays false; the loop test that finds it false starts no further   *)
(* iteration and goes to the cleanup, which is entered in no other way;    *)
(* the renderer, the window and SDL are released in this order, each       *)
(* exactly once, before the return.                                        *)
(***************************************************************************)
C8_Shutdown ==
    /\ [][(Handled /\ event'.type = "quit") => ~running']_vars
    /\ [][~running => ~running']_vars
    /\ [][(pc = "while" /\ ~running) => pc' = "destroyRenderer"]_vars
    /\ [][(~running /\ pc # "while") => pc' # "poll" \/ pc = "poll"]_vars
    /\ [](pc \in {"destroyRenderer", "destroyWindow", "quit", "done"} => ~running)
    /\ [](/\ released.renderer = (IF pc \in {"destroyWindow", "quit", "done"} THEN 1 ELSE 0)
          /\ released.window = (IF pc \in {"quit", "done"} THEN 1 ELSE 0)
          /\ released.sdl = (IF pc = "done" THEN 1 ELSE 0))
    /\ [][pc = "done" => UNCHANGED vars]_vars

\* The program returned after a window-close, everything released once.
C8_Witness ==
    /\ pc = "done"
    /\ ~running
    /\ released = [renderer |-> 1, window |-> 1, sdl |-> 1]

(***************************************************************************)
(* C9.  Per-frame draw order: the queue of a frame is a prefix of clear,   *)
(* obstacle outline, 360 ray segments, light marker, and is presented      *)
(* only when complete; nothing is drawn while events are polled and the    *)
(* light does not move while a frame is being drawn, so the rays and the   *)
(* marker use the light position left by that frame's events.              *)
(***************************************************************************)
C9_Order ==
    /\ [](/\ Len(drawCalls) \in {0, 1, 2, 2 + numRays, 3 + numRays}
          /\ \A k \in 1..Len(drawCalls) :
                IF k = 1 THEN drawCalls[k].op = "clear"
                ELSE IF k = 2 THEN /\ drawCalls[k].op = "circle"
                                   /\ drawCalls[k].p = <<400, 300, 50>>
                ELSE IF k <= 2 + numRays
                     THEN /\ drawCalls[k].op = "line"
                          /\ drawCalls[k].p[1] = FloatToInt(lightPos.x)
                          /\ drawCalls[k].p[2] = FloatToInt(lightPos.y)
                ELSE /\ drawCalls[k].op = "circle"
                     /\ drawCalls[k].p = <<FloatToInt(lightPos.x),
                                           FloatToInt(lightPos.y), 20>>
          /\ pc = "present" => Len(drawCalls) = 3 + numRays
          /\ pc \in {"start", "while", "poll", "clear"} => drawCalls = <<>>)
    /\ [][drawCalls' # drawCalls => (pc # "poll" /\ lightPos' = lightPos)]_vars
    /\ [][lightPos' # lightPos => (pc = "poll" /\ drawCalls' = <<>>)]_vars
    /\ [][(pc = "present" /\ pc' # pc) =>
            (Len(drawCalls) = 3 + numRays /\ drawCalls' = <<>>)]_vars

\* A complete frame is about to be presented with the light where a drag
\* left it.
C9_Witness ==
    /\ pc = "present"
    /\ Len(drawCalls) = 3 + numRays
    /\ lightPos # InitialLightPos

(***************************************************************************)
(* C10.  Per-ray resolution: a frame queues exactly 360 ray segments, the  *)
(* k-th for sample k - 1, each from the light position; a hit is drawn to  *)
(* origin + direction * t with alpha 100 and ends on the circle; a miss is *)
(* drawn to origin + direction * 1000 with alpha 50.                       *)
(***************************************************************************)
C10_Rays ==
    FanQueued =>
        /\ Cardinality({k \in 1..Len(drawCalls) : drawCalls[k].op = "line"}) = 360
        /\ \A k \in 1..360 :
            LET seg  == Seg(k)
                res  == RayResult(k)
                dx   == seg.p[3] - seg.p[1]
                dy   == seg.p[4] - seg.p[2]
                cx   == seg.p[3] - 400
                cy   == seg.p[4] - 300
                end  == VAdd(lightPos,
                             VScale(RayDir(k - 1),
                                    IF res.hit THEN res.t ELSE IntToFloat(1000)))
            IN  /\ seg.op = "line"
                /\ seg.p[1] = FloatToInt(lightPos.x)
                /\ seg.p[2] = FloatToInt(lightPos.y)
                /\ seg.p[3] = FloatToInt(end.x)
                /\ seg.p[4] = FloatToInt(end.y)
                /\ seg.rgba[4] = (IF res.hit THEN 100 ELSE 50)
                /\ res.hit => (2360 <= cx * cx + cy * cy /\ cx * cx + cy * cy <= 2644)
                /\ ~res.hit => (997002 < dx * dx + dy * dy /\ dx * dx + dy * dy < 1003003)

\* A queued fan with both a hit segment and a miss segment.
C10_Witness ==
    /\ pc = "light"
    /\ \E k \in 1..numRays : Seg(k).rgba[4] = 100
    /\ \E k \in 1..numRays : Seg(k).rgba[4] = 50

====
